---- MODULE Spec2Model ----
(***************************************************************************)
(* Model of the single-image analysis path of image2markdown               *)
(* (encode -> build messages -> call with retry -> extract text) in its    *)
(* five variants, and of the batch helper analyze_multiple_images.         *)
(*                                                                         *)
(* Text is a sequence of chunks.  A chunk is either one whitespace         *)
(* character or a run of text that starts and ends with a non-whitespace   *)
(* character, so Python's str.strip() and truthiness act on chunks as they *)
(* act on characters.                                                      *)
(***************************************************************************)
EXTENDS Integers, Sequences, FiniteSets, TLC

(* ------------------------------ bounds --------------------------------- *)
MaxPromptLen == 2
MaxImageBytes == 1
MaxImages == 3
MaxRetriesArg == 4
MaxChoices == 2

(* --------------------------- program constants ------------------------- *)
DefaultMaxRetries == 3

Variants == {"app", "image_analyzer", "managed_identity", "foundry", "simple_app"}

RetryVariants == {"app", "image_analyzer", "managed_identity"}

BatchVariants == {"managed_identity", "foundry"}

SystemPromptVariants == {"image_analyzer", "managed_identity", "foundry"}

(* ------------------------------- text ---------------------------------- *)
IsSpace(c) == c \in {" ", "\t", "\n"}

RECURSIVE LStrip(_)
LStrip(s) == IF Len(s) > 0 /\ IsSpace(Head(s)) THEN LStrip(Tail(s)) ELSE s

RECURSIVE RStrip(_)
RStrip(s) ==
    IF Len(s) > 0 /\ IsSpace(s[Len(s)]) THEN RStrip(SubSeq(s, 1, Len(s) - 1)) ELSE s

Strip(s) == RStrip(LStrip(s))

StartsWith(s, p) == Len(s) >= Len(p) /\ SubSeq(s, 1, Len(p)) = p

(* Optional[str]: None or a string *)
None == [is_none |-> TRUE, str |-> <<>>]

Str(s) == [is_none |-> FALSE, str |-> s]

(* Python truthiness of an Optional[str]: None and "" are falsy *)
Truthy(p) == ~p.is_none /\ Len(p.str) > 0

(* p and p.strip() *)
NonBlank(p) == Truthy(p) /\ Len(Strip(p.str)) > 0

(* p or d *)
OrDefault(p, d) == IF Truthy(p) THEN p.str ELSE d

(* ------------------------------ base64 --------------------------------- *)
B64Alphabet ==
    << "A","B","C","D","E","F","G","H","I","J","K","L","M","N","O","P",
       "Q","R","S","T","U","V","W","X","Y","Z","a","b","c","d","e","f",
       "g","h","i","j","k","l","m","n","o","p","q","r","s","t","u","v",
       "w","x","y","z","0","1","2","3","4","5","6","7","8","9","+","/" >>

B64Char(n) == B64Alphabet[n + 1]

RECURSIVE b64encode(_)
b64encode(bytes) ==
    IF Len(bytes) = 0 THEN <<>>
    ELSE IF Len(bytes) = 1 THEN
        << B64Char(bytes[1] \div 4), B64Char((bytes[1] % 4) * 16), "=", "=" >>
    ELSE IF Len(bytes) = 2 THEN
        << B64Char(bytes[1] \div 4),
           B64Char((bytes[1] % 4) * 16 + bytes[2] \div 16),
           B64Char((bytes[2] % 16) * 4), "=" >>
    ELSE
        << B64Char(bytes[1] \div 4),
           B64Char((bytes[1] % 4) * 16 + bytes[2] \div 16),
           B64Char((bytes[2] % 16) * 4 + bytes[3] \div 64),
           B64Char(bytes[3] % 64) >>
        \o b64encode(SubSeq(bytes, 4, Len(bytes)))

(* --------------------------- default prompts --------------------------- *)
AnalystPrefix == <<"You are an expert image analyst">>

DescribePrefix == <<"Analyze this image and provide a detailed description">>

AppSystemText ==
    AnalystPrefix \o <<".", " ", "Provide detailed, accurate descriptions of images.">>

AppDefaultPrompt ==
    DescribePrefix \o
    <<".", " ", "Include information about objects, people, setting, colors, mood,",
      " ", "and any text visible in the image.", " ", "Be descriptive but concise.">>

AnalyzerDefaultSystemPrompt ==
    AnalystPrefix \o
    <<".", " ", "Provide detailed, accurate descriptions of images.", " ",
      "Be thorough but concise in your analysis.">>

AnalyzerDefaultUserPrompt ==
    DescribePrefix \o
    <<".", " ", "Include information about objects, people, setting, colors, mood,",
      " ", "and any text visible in the image.">>

IdentityDefaultUserPrompt == DescribePrefix \o <<".">>

(* ------------------------------ images --------------------------------- *)
ByteSamples == {77, 255}

RECURSIVE SeqsUpTo(_, _)
SeqsUpTo(S, n) ==
    IF n = 0 THEN {<<>>}
    ELSE LET shorter == SeqsUpTo(S, n - 1)
         IN  shorter \cup {Append(s, x) : s \in {t \in shorter : Len(t) = n - 1}, x \in S}

ImageBytes == SeqsUpTo(ByteSamples, MaxImageBytes)

(* an image given as a filesystem path: fs is what the path resolves to,   *)
(* pil_ok whether PIL.Image.open can identify the file's content           *)
PathImages ==
    {[kind |-> "path", path |-> "cat.jpg", fs |-> f, pil_ok |-> FALSE, bytes |-> <<>>] :
        f \in {"missing", "dir"}}
    \cup
    {[kind |-> "path", path |-> "cat.jpg", fs |-> "file", pil_ok |-> FALSE, bytes |-> b] :
        b \in ImageBytes}
    \cup
    {[kind |-> "path", path |-> "cat.jpg", fs |-> "file", pil_ok |-> TRUE, bytes |-> b] :
        b \in {c \in ImageBytes : Len(c) > 0}}

BytesImages ==
    {[kind |-> "bytes", path |-> "", fs |-> "none", pil_ok |-> FALSE, bytes |-> b] :
        b \in ImageBytes}

NoImage == [kind |-> "none", path |-> "", fs |-> "none", pil_ok |-> FALSE, bytes |-> <<>>]

ImagesFor(v) ==
    IF v \in {"app", "simple_app"} THEN PathImages
    ELSE IF v = "image_analyzer" THEN BytesImages
    ELSE PathImages \cup BytesImages

(* ------------------------------ errors --------------------------------- *)
(* origin: ordinal of the transport call that produced the error object,   *)
(* 0 for an error object constructed by this repository's code             *)
Error(t, m, o) == [type |-> t, msg |-> m, origin |-> o]

NoError == Error("", <<>>, 0)

TransportFaults ==
    { [type |-> "APIConnectionError", msg |-> <<"Connection error.">>],
      [type |-> "APITimeoutError", msg |-> <<"Request timed out.">>] }

FileNotFound(image) ==
    Error("FileNotFoundError", <<"Image file not found:", " ", image.path>>, 0)

IsADirectory(image) ==
    Error("IsADirectoryError", <<"[Errno 21] Is a directory:", " ", image.path>>, 0)

Unidentified(image) ==
    Error("UnidentifiedImageError", <<"cannot identify image file", " ", image.path>>, 0)

IndexErrorEmpty == Error("IndexError", <<"list index out of range">>, 0)

AttributeErrorNone ==
    Error("AttributeError", <<"'NoneType' object has no attribute 'choices'">>, 0)

(* ------------------------------ encoders ------------------------------- *)
Ok(v) == [ok |-> TRUE, value |-> v, error |-> NoError]

Fail(e) == [ok |-> FALSE, value |-> <<>>, error |-> e]

(* app.py _encode_image and simple_app.py encode_image: exists check, PIL  *)
(* open, then read + b64encode; every exception is re-raised               *)
EncodeValidatedLenient(image) ==
    IF image.fs = "missing" THEN Fail(FileNotFound(image))
    ELSE IF image.fs = "dir" THEN Fail(IsADirectory(image))
    ELSE Ok(b64encode(image.bytes))

EncodeValidated(image) ==
    IF image.fs = "missing" THEN Fail(FileNotFound(image))
    ELSE IF image.fs = "dir" THEN Fail(IsADirectory(image))
    ELSE IF ~image.pil_ok THEN Fail(Unidentified(image))
    ELSE Ok(b64encode(image.bytes))

(* image_analyzer.py encode_image: bytes only *)
EncodeBytes(image) == Ok(b64encode(image.bytes))

(* managed identity / foundry encode_image: path or bytes *)
EncodePathOrBytesUnchecked(image) ==
    IF image.kind = "path" THEN
        IF image.fs = "missing"
        THEN Fail(Error("FileNotFoundError",
                        <<"[Errno 2] No such file or directory:", " ", image.path>>, 0))
        ELSE IF image.fs = "dir" THEN Fail(IsADirectory(image))
        ELSE Ok(b64encode(image.bytes))
    ELSE Ok(b64encode(image.bytes))

EncodePathOrBytes(image) ==
    IF image.kind = "path" THEN
        IF image.fs = "missing" THEN Fail(FileNotFound(image))
        ELSE IF image.fs = "dir" THEN Fail(IsADirectory(image))
        ELSE Ok(b64encode(image.bytes))
    ELSE Ok(b64encode(image.bytes))

Encode(v, image) ==
    IF v \in {"app", "simple_app"} THEN EncodeValidated(image)
    ELSE IF v = "image_analyzer" THEN EncodeBytes(image)
    ELSE EncodePathOrBytes(image)

(* --------------------------- message builder --------------------------- *)
SystemMessage(text) == [role |-> "system", content |-> text]

UserMessage(parts) == [role |-> "user", parts |-> parts]

TextPart(text) == [type |-> "text", text |-> text]

DataUrlPng(encoded) == <<"data:image/png;base64,">> \o encoded

DataUrl(encoded) == <<"data:image/jpeg;base64,">> \o encoded

ImagePart(v, encoded) ==
    IF v \in {"managed_identity", "foundry"}
    THEN [type |-> "image_url", url |-> DataUrl(encoded), detail |-> "high"]
    ELSE [type |-> "image_url", url |-> DataUrl(encoded)]

(* the system messages of the request: one in app, simple_app and          *)
(* image_analyzer; one or none in managed identity and foundry             *)
SystemMessages(v, system_prompt) ==
    IF v \in {"app", "simple_app"} THEN << SystemMessage(AppSystemText) >>
    ELSE IF v = "image_analyzer"
         THEN << SystemMessage(OrDefault(system_prompt, AnalyzerDefaultSystemPrompt)) >>
    ELSE IF NonBlank(system_prompt)
         THEN << SystemMessage(Strip(system_prompt.str)) >>
         ELSE << >>

UserText(v, user_prompt) ==
    IF v \in {"app", "simple_app"} THEN OrDefault(user_prompt, AppDefaultPrompt)
    ELSE IF v = "image_analyzer" THEN OrDefault(user_prompt, AnalyzerDefaultUserPrompt)
    ELSE IF NonBlank(user_prompt) THEN Strip(user_prompt.str)
    ELSE IdentityDefaultUserPrompt

BuildMessagesImageFirst(v, encoded, system_prompt, user_prompt) ==
    SystemMessages(v, system_prompt)
    \o << UserMessage(<< ImagePart(v, encoded), TextPart(UserText(v, user_prompt)) >>) >>

BuildMessages(v, encoded, system_prompt, user_prompt) ==
    SystemMessages(v, system_prompt)
    \o << UserMessage(<< TextPart(UserText(v, user_prompt)), ImagePart(v, encoded) >>) >>

(* ------------------------------ responses ------------------------------ *)
ChoiceTexts == { <<"A orange cat sitting on a chair.">>, <<"A", " ", "dog.">> }

Response(choices) == [is_none |-> FALSE, choices |-> choices]

NoResponse == [is_none |-> TRUE, choices |-> <<>>]

(* what the transport may return: any list of at most MaxChoices choices   *)
Responses == {Response(c) : c \in SeqsUpTo(ChoiceTexts, MaxChoices)}

(* response.choices[0].message.content *)
ExtractOrEmpty(response) ==
    IF response.is_none THEN Fail(AttributeErrorNone)
    ELSE IF Len(response.choices) = 0 THEN Ok(<<>>)
    ELSE Ok(response.choices[1])

ExtractLast(response) ==
    IF response.is_none THEN Fail(AttributeErrorNone)
    ELSE IF Len(response.choices) = 0 THEN Fail(IndexErrorEmpty)
    ELSE Ok(response.choices[Len(response.choices)])

Extract(response) ==
    IF response.is_none THEN Fail(AttributeErrorNone)
    ELSE IF Len(response.choices) = 0 THEN Fail(IndexErrorEmpty)
    ELSE Ok(response.choices[1])

(* ------------------------------ retry ---------------------------------- *)
(* for attempt in range(max_retries) *)
InRange(attempt, n) == attempt < n

(* if attempt == max_retries - 1 *)
IsFinalAttemptOffByOne(attempt, n) == attempt = n

IsFinalAttemptNever(attempt, n) == FALSE

IsFinalAttempt(attempt, n) == attempt = n - 1

(* wait_time = (2 ** attempt) + 1 *)
WaitTimeNextPower(attempt) == (2 ^ (attempt + 1)) + 1

WaitTimeLinear(attempt) == attempt + 2

WaitTime(attempt) == (2 ^ attempt) + 1

(* the bare raise of the except clause *)
ReraiseWrapped(e) == Error("RuntimeError", <<"All retry attempts failed:", " ">> \o e.msg, 0)

Reraise(e) == e

(* --------------------- analyze_image's except clauses ------------------ *)
FailedToAnalyze(e) == <<"Failed to analyze image:", " ">> \o e.msg

ImageFileError(e) == <<"Image file error:", " ">> \o e.msg

(* the exception analyze_image hands to its caller when e reaches its      *)
(* except clauses (simple_app has none)                                    *)
SurfaceUnwrapped(v, e) == e

SurfaceAllRuntime(v, e) ==
    IF v \in {"app", "simple_app"} THEN e
    ELSE IF v = "image_analyzer" THEN Error("Exception", FailedToAnalyze(e), 0)
    ELSE Error("RuntimeError", FailedToAnalyze(e), 0)

Surface(v, e) ==
    IF v \in {"app", "simple_app"} THEN e
    ELSE IF v = "image_analyzer" THEN Error("Exception", FailedToAnalyze(e), 0)
    ELSE IF e.type = "FileNotFoundError" THEN Error("ValueError", ImageFileError(e), 0)
    ELSE Error("RuntimeError", FailedToAnalyze(e), 0)

(* ------------------------------ batch ---------------------------------- *)
SuccessRecord(i, text) == [index |-> i, success |-> TRUE, result |-> text]

FailureRecordFlagged(i, e) == [index |-> i, success |-> TRUE, error |-> e.msg]

FailureRecord(i, e) == [index |-> i, success |-> FALSE, error |-> e.msg]

AccumulateFront(results, rec) == <<rec>> \o results

Accumulate(results, rec) == Append(results, rec)

(* ------------------------------ inputs --------------------------------- *)
PromptChars == {" ", "x"}

Prompts == {None} \cup {Str(t) : t \in SeqsUpTo(PromptChars, MaxPromptLen)}

(* app.py and simple_app.py take one custom prompt and no system prompt *)
SystemPromptsFor(v) == IF v \in SystemPromptVariants THEN Prompts ELSE {None}

BatchItems ==
    { [kind |-> "path", path |-> "cat.jpg", fs |-> "missing", pil_ok |-> FALSE, bytes |-> <<>>],
      [kind |-> "bytes", path |-> "", fs |-> "none", pil_ok |-> FALSE, bytes |-> <<77>>] }

BatchPrompts == {None, Str(<<"x">>)}

(* ---------------------------- configuration ---------------------------- *)
EndpointUrl == <<"https://e">>

(* an environment variable: unset, set to "", or set to a value *)
EndpointValues == {None, Str(<<>>), Str(EndpointUrl)}

KeyValues == {None, Str(<<"k">>)}

(* the endpoint and key variables the variant reads; the managed-identity  *)
(* variant reads no key                                                    *)
EnvFor(v) ==
    [endpoint : EndpointValues,
     api_key : IF v = "managed_identity" THEN {None} ELSE KeyValues]

(* os.getenv(name, default) *)
Getenv(val, default) == IF val.is_none THEN default ELSE val

FoundryDefaultEndpoint == Str(<<"https://openai-73uqkh3mopzeg.openai.azure.com/">>)

(* self.endpoint / the endpoint local *)
ResolvedEndpoint(v, e) ==
    IF v = "foundry" THEN Getenv(e.endpoint, FoundryDefaultEndpoint) ELSE e.endpoint

ApiVersion(v) ==
    IF v = "app" THEN "" ELSE IF v = "foundry" THEN "2024-02-01" ELSE "2024-12-01-preview"

Credential(v, use_mi) ==
    IF v = "app" THEN (IF use_mi THEN "DefaultAzureCredential" ELSE "AzureKeyCredential")
    ELSE IF v = "managed_identity" THEN "DefaultAzureCredential"
    ELSE "api_key"

(* the validation of the configuration: `if not self.endpoint or not       *)
(* self.api_key`, and in app.py `if not api_key` on the API-key path       *)
ConfigMissingNever(v, e, use_mi) == FALSE

ConfigMissing(v, e, use_mi) ==
    IF v = "app" THEN ~use_mi /\ ~Truthy(e.api_key)
    ELSE IF v = "managed_identity" THEN ~Truthy(e.endpoint)
    ELSE ~Truthy(ResolvedEndpoint(v, e)) \/ ~Truthy(e.api_key)

ConfigError(v, e) ==
    Error("ValueError",
          IF v = "app" THEN <<"AZURE_AI_API_KEY environment variable not set">>
          ELSE IF v = "image_analyzer" THEN <<"Azure OpenAI configuration missing.">>
          ELSE IF v = "simple_app"
               THEN <<"AZURE_AI_ENDPOINT and AZURE_AI_API_KEY must be set in environment variables">>
          ELSE IF ~Truthy(ResolvedEndpoint(v, e))
               THEN <<"AZURE_OPENAI_ENDPOINT environment variable is required">>
          ELSE <<"AZURE_OPENAI_API_KEY environment variable is required.">>,
          0)

(* an exception out of the SDK's client constructor *)
ClientFault == Error("OpenAIError", <<"client init failed">>, 0)

(* what the constructor raises for it: managed identity and Foundry wrap   *)
(* it, app.py re-raises it, image_analyzer.py and simple_app.py have no    *)
(* handler                                                                 *)
ClientError(v) ==
    IF v \in {"managed_identity", "foundry"}
    THEN Error("RuntimeError",
               <<"Failed to initialize Azure OpenAI client:", " ">> \o ClientFault.msg, 0)
    ELSE ClientFault

(* the fields set by __init__ (in simple_app.py: the locals of             *)
(* analyze_image that hold the configuration and the client)               *)
NoAnalyzer ==
    [built |-> FALSE, endpoint |-> None, api_key |-> None, api_version |-> "",
     model |-> "", credential |-> "", client |-> None]

Analyzer(v, e, use_mi) ==
    [built |-> TRUE,
     endpoint |-> ResolvedEndpoint(v, e),
     api_key |-> IF v \in {"app", "managed_identity"} THEN None ELSE e.api_key,
     api_version |-> ApiVersion(v),
     model |-> "gpt-4o",
     credential |-> Credential(v, use_mi),
     client |-> ResolvedEndpoint(v, e)]

(* __init__: validation, then the client *)
New(v, e, use_mi, client_ok) ==
    IF ConfigMissing(v, e, use_mi) THEN Fail(ConfigError(v, e))
    ELSE IF ~client_ok THEN Fail(ClientError(v))
    ELSE Ok(Analyzer(v, e, use_mi))

(* analyze_image assigns no attribute of self *)
SelfAfterRebound(a) == [a EXCEPT !.model = "", !.client = None]

SelfAfter(a) == a

(* the exit status of main after analyze_image: the end of main is         *)
(* reached only past print(description), the except clause exits with 1    *)
ExitCodeAlwaysZero(result) == 0

ExitCode(result) == IF result.kind = "return" THEN 0 ELSE 1

CliVariants == {"app", "simple_app"}

(* ------------------------------- state --------------------------------- *)
VARIABLES
    variant,        \* which module's analyzer this is
    env,            \* the environment variables it reads
    use_managed_identity,   \* constructor argument of app.py's ImageAnalyzer
    analyzer,       \* the fields set by the constructor
    cli,            \* the exit status and the output of main
    requests,       \* the arguments of the client calls made for the current request
    single_result,  \* what streamlit_app.py's analyze_single_image returned
    op,             \* the operation the caller invoked
    pc,             \* position in the running operation
    image_data,     \* analyze_image arguments
    system_prompt,
    user_prompt,
    encoded_image,  \* analyze_image locals
    messages,
    max_retries,    \* _call_with_retry parameter and loop variable
    attempt,
    inflight,       \* transport requests sent and not yet answered
    calls,          \* transport calls made for the current request
    sleeps,         \* durations passed to time.sleep for the current request
    log,            \* call / ok / fail / sleep events of the current request
    exc,            \* the exception being handled
    reply,          \* what the transport produced for the latest call
    response,
    cwr_result,     \* how _call_with_retry ended
    ai_result,      \* how analyze_image ended
    image_list,     \* analyze_multiple_images arguments and locals
    idx,
    results

vars ==
    << variant, env, use_managed_identity, analyzer, cli, requests, single_result, op, pc, image_data, system_prompt, user_prompt, encoded_image,
       messages, max_retries, attempt, inflight, calls, sleeps, log, exc,
       reply, response, cwr_result, ai_result, image_list, idx, results >>

batch_vars == << image_list, idx, results >>

Pending == [kind |-> "none", response |-> NoResponse, text |-> <<>>, error |-> NoError]

Returned(r) == [kind |-> "return", response |-> r, text |-> <<>>, error |-> NoError]

ReturnedText(t) == [kind |-> "return", response |-> NoResponse, text |-> t, error |-> NoError]

Raised(e) == [kind |-> "raise", response |-> NoResponse, text |-> <<>>, error |-> e]

Event(e, n) == [ev |-> e, n |-> n]

NoReply == [call |-> 0, kind |-> "none", response |-> NoResponse, error |-> NoError]

ReplyResponse(c, r) == [call |-> c, kind |-> "response", response |-> r, error |-> NoError]

ReplyError(c, e) == [call |-> c, kind |-> "error", response |-> NoResponse, error |-> e]

Running == [exited |-> FALSE, code |-> 0, printed |-> None]

Exited(code, printed) == [exited |-> TRUE, code |-> code, printed |-> printed]

(* the analyzer exists, or the variant has none to construct *)
Ready == variant = "simple_app" \/ analyzer.built

Init ==
    /\ variant \in Variants
    /\ env \in EnvFor(variant)
    /\ use_managed_identity = TRUE
    /\ analyzer = NoAnalyzer
    /\ cli = Running
    /\ requests = <<>>
    /\ single_result = Pending
    /\ op = "none"
    /\ pc = "idle"
    /\ image_data = NoImage
    /\ system_prompt = None
    /\ user_prompt = None
    /\ encoded_image = <<>>
    /\ messages = <<>>
    /\ max_retries = 0
    /\ attempt = 0
    /\ inflight = 0
    /\ calls = 0
    /\ sleeps = <<>>
    /\ log = <<>>
    /\ exc = NoError
    /\ reply = NoReply
    /\ response = NoResponse
    /\ cwr_result = Pending
    /\ ai_result = Pending
    /\ image_list = <<>>
    /\ idx = 0
    /\ results = <<>>

(* entry into analyze_image: fresh locals *)
EnterAnalyzeImage(img, sp, up) ==
    /\ image_data' = img
    /\ system_prompt' = sp
    /\ user_prompt' = up
    /\ encoded_image' = <<>>
    /\ messages' = <<>>
    /\ max_retries' = 0
    /\ attempt' = 0
    /\ calls' = 0
    /\ sleeps' = <<>>
    /\ log' = <<>>
    /\ exc' = NoError
    /\ reply' = NoReply
    /\ response' = NoResponse
    /\ cwr_result' = Pending
    /\ ai_result' = Pending
    /\ requests' = <<>>
    /\ pc' = IF variant = "simple_app" THEN "config" ELSE "encode"

(* where control goes when analyze_image ends *)
AfterAnalyze ==
    IF op = "analyze_multiple_images" THEN "record"
    ELSE IF op = "main" THEN "main_end"
    ELSE IF op = "analyze_single_image" THEN "helper_end"
    ELSE "done"

(* where control goes when _call_with_retry returns / raises *)
AfterReturn == IF op = "call_with_retry" THEN "done" ELSE "extract"

AfterRaise == IF op = "call_with_retry" THEN "done" ELSE "except"

(* a caller constructs the analyzer *)
Construct ==
    /\ pc = "idle"
    /\ op = "none"
    /\ variant # "simple_app"
    /\ ~analyzer.built
    /\ variant = "app" => Truthy(env.endpoint)
    /\ \E mi \in (IF variant = "app" THEN BOOLEAN ELSE {TRUE}), client_ok \in BOOLEAN :
          LET r == New(variant, env, mi, client_ok)
          IN  /\ use_managed_identity' = mi
              /\ IF r.ok
                 THEN /\ analyzer' = r.value
                      /\ UNCHANGED << op, pc, exc >>
                 ELSE /\ op' = "construct"
                      /\ pc' = "failed"
                      /\ exc' = r.error
                      /\ analyzer' = analyzer
    /\ UNCHANGED << variant, requests, single_result, env, cli, image_data, system_prompt, user_prompt,
                    encoded_image, messages, max_retries, attempt, inflight, calls,
                    sleeps, log, reply, response, cwr_result, ai_result, batch_vars >>

(* simple_app.py analyze_image: configuration check and client, ahead of   *)
(* the encoder; nothing catches the ValueError inside analyze_image        *)
CheckConfig ==
    /\ pc = "config"
    /\ \E client_ok \in BOOLEAN :
          LET r == New(variant, env, TRUE, client_ok)
          IN  IF r.ok
              THEN /\ analyzer' = r.value
                   /\ pc' = "encode"
                   /\ UNCHANGED << exc, ai_result >>
              ELSE /\ exc' = r.error
                   /\ ai_result' = Raised(r.error)
                   /\ pc' = AfterAnalyze
                   /\ analyzer' = analyzer
    /\ UNCHANGED << variant, requests, single_result, env, use_managed_identity, cli, op, image_data,
                    system_prompt, user_prompt, encoded_image, messages, max_retries,
                    attempt, inflight, calls, sleeps, log, reply, response,
                    cwr_result, batch_vars >>

(* main: the endpoint check and the constructor (app.py), then             *)
(* analyze_image(args.image_path, args.prompt)                             *)
MainStart ==
    /\ pc = "idle"
    /\ op = "none"
    /\ variant \in CliVariants
    /\ ~analyzer.built
    /\ \E use_api_key \in (IF variant = "app" THEN BOOLEAN ELSE {FALSE}),
          client_ok \in BOOLEAN, img \in ImagesFor(variant), up \in Prompts :
          LET r == New(variant, env, ~use_api_key, client_ok)
          IN  /\ use_managed_identity' = ~use_api_key
              /\ IF variant = "app" /\ ~Truthy(env.endpoint)
                 THEN /\ cli' = Exited(1, None)
                      /\ pc' = "exited"
                      /\ UNCHANGED << analyzer, requests, image_data, system_prompt, user_prompt,
                                      encoded_image, messages, max_retries, attempt,
                                      calls, sleeps, log, exc, reply, response,
                                      cwr_result, ai_result >>
                 ELSE IF variant = "app" /\ ~r.ok
                 THEN /\ cli' = Exited(1, None)
                      /\ pc' = "exited"
                      /\ exc' = r.error
                      /\ UNCHANGED << analyzer, requests, image_data, system_prompt, user_prompt,
                                      encoded_image, messages, max_retries, attempt,
                                      calls, sleeps, log, reply, response,
                                      cwr_result, ai_result >>
                 ELSE /\ analyzer' = (IF variant = "app" THEN r.value ELSE analyzer)
                      /\ cli' = cli
                      /\ EnterAnalyzeImage(img, None, up)
    /\ op' = "main"
    /\ UNCHANGED << variant, single_result, env, inflight, batch_vars >>

(* main after analyze_image: print the description, or the except clause   *)
(* and sys.exit(1)                                                         *)
MainEnd ==
    /\ pc = "main_end"
    /\ cli' = Exited(ExitCode(ai_result),
                     IF ai_result.kind = "return" THEN Str(ai_result.text) ELSE None)
    /\ pc' = "exited"
    /\ UNCHANGED << variant, requests, single_result, env, use_managed_identity, analyzer, op, image_data,
                    system_prompt, user_prompt, encoded_image, messages, max_retries,
                    attempt, inflight, calls, sleeps, log, exc, reply, response,
                    cwr_result, ai_result, batch_vars >>

(* a caller invokes analyze_image *)
StartAnalyzeImage ==
    /\ pc = "idle"
    /\ Ready
    /\ \E img \in ImagesFor(variant), sp \in SystemPromptsFor(variant), up \in Prompts :
          EnterAnalyzeImage(img, sp, up)
    /\ op' = "analyze_image"
    /\ UNCHANGED << variant, single_result, env, use_managed_identity, analyzer, cli, inflight, batch_vars >>

(* encoded_image = self.encode_image(image_data) *)
EncodeImage ==
    /\ pc = "encode"
    /\ LET r == Encode(variant, image_data)
       IN  IF r.ok
           THEN /\ encoded_image' = r.value
                /\ pc' = "build"
                /\ exc' = exc
           ELSE /\ exc' = r.error
                /\ pc' = "except"
                /\ encoded_image' = encoded_image
    /\ UNCHANGED << variant, requests, single_result, env, use_managed_identity, analyzer, cli, reply, op, image_data, system_prompt, user_prompt, messages,
                    max_retries, attempt, inflight, calls, sleeps, log, response,
                    cwr_result, ai_result, batch_vars >>

(* the messages are built and handed to _call_with_retry (default bound)   *)
(* or, in foundry and simple_app, straight to the client                   *)
BuildRequestSharedBudget ==
    /\ pc = "build"
    /\ messages' = BuildMessages(variant, encoded_image, system_prompt, user_prompt)
    /\ IF variant \in RetryVariants
       THEN /\ max_retries' = DefaultMaxRetries - Len(SelectSeq(results, LAMBDA r : ~r.success))
            /\ attempt' = 0
            /\ pc' = "retry_loop"
       ELSE /\ pc' = "direct_call"
            /\ UNCHANGED << max_retries, attempt >>
    /\ UNCHANGED << variant, requests, single_result, env, use_managed_identity, analyzer, cli, reply, op, image_data, system_prompt, user_prompt, encoded_image,
                    inflight, calls, sleeps, log, exc, response, cwr_result,
                    ai_result, batch_vars >>

(* the messages are built and handed to _call_with_retry (default bound)   *)
(* or, in foundry and simple_app, straight to the client                   *)
BuildRequest ==
    /\ pc = "build"
    /\ messages' = BuildMessages(variant, encoded_image, system_prompt, user_prompt)
    /\ IF variant \in RetryVariants
       THEN /\ max_retries' = DefaultMaxRetries
            /\ attempt' = 0
            /\ pc' = "retry_loop"
       ELSE /\ pc' = "direct_call"
            /\ UNCHANGED << max_retries, attempt >>
    /\ UNCHANGED << variant, requests, single_result, env, use_managed_identity, analyzer, cli, reply, op, image_data, system_prompt, user_prompt, encoded_image,
                    inflight, calls, sleeps, log, exc, response, cwr_result,
                    ai_result, batch_vars >>

(* a caller invokes _call_with_retry itself, with a bound of its choice *)
StartCallWithRetry ==
    /\ pc = "idle"
    /\ Ready
    /\ variant \in RetryVariants
    /\ \E n \in 0 .. MaxRetriesArg : max_retries' = n
    /\ op' = "call_with_retry"
    /\ messages' = BuildMessages(variant, b64encode(<<77>>), None, None)
    /\ attempt' = 0
    /\ pc' = "retry_loop"
    /\ requests' = <<>>
    /\ UNCHANGED << variant, single_result, env, use_managed_identity, analyzer, cli, reply, image_data, system_prompt, user_prompt, encoded_image,
                    inflight, calls, sleeps, log, exc, response, cwr_result,
                    ai_result, batch_vars >>

(* the keyword arguments of client...create(...) *)
MaxTokens == 1000

RequestShrinking(a, msgs) ==
    [messages |-> msgs, model |-> a.model, max_tokens |-> MaxTokens \div (attempt + 1),
     temperature |-> "0.1"]

Request(a, msgs) ==
    [messages |-> msgs, model |-> a.model, max_tokens |-> MaxTokens,
     temperature |-> "0.1"]

(* the request goes out *)
Send ==
    /\ inflight' = inflight + 1
    /\ calls' = calls + 1
    /\ log' = Append(log, Event("call", attempt))
    /\ pc' = "inflight"
    /\ requests' = Append(requests, Request(analyzer, messages))
    /\ UNCHANGED << variant, single_result, env, use_managed_identity, analyzer, cli, reply, op, image_data, system_prompt, user_prompt, encoded_image,
                    messages, max_retries, attempt, sleeps, exc, response,
                    cwr_result, ai_result, batch_vars >>

(* loop body of _call_with_retry: self.client...create(...) *)
RetryAttempt ==
    /\ pc = "retry_loop"
    /\ InRange(attempt, max_retries)
    /\ Send

(* the for loop of _call_with_retry runs out: the function returns None *)
LoopExhausted ==
    /\ pc = "retry_loop"
    /\ ~InRange(attempt, max_retries)
    /\ cwr_result' = Returned(NoResponse)
    /\ response' = NoResponse
    /\ pc' = AfterReturn
    /\ UNCHANGED << variant, requests, single_result, env, use_managed_identity, analyzer, cli, reply, op, image_data, system_prompt, user_prompt, encoded_image,
                    messages, max_retries, attempt, inflight, calls, sleeps, log,
                    exc, ai_result, batch_vars >>

(* foundry / simple_app: the single client call of analyze_image *)
DirectCall ==
    /\ pc = "direct_call"
    /\ Send

(* the transport answers with a response *)
TransportReturns ==
    /\ pc = "inflight"
    /\ \E r \in Responses :
          /\ response' = r
          /\ reply' = ReplyResponse(calls, r)
          /\ cwr_result' = IF variant \in RetryVariants THEN Returned(r) ELSE cwr_result
    /\ inflight' = inflight - 1
    /\ log' = Append(log, Event("ok", attempt))
    /\ pc' = AfterReturn
    /\ UNCHANGED << variant, requests, single_result, env, use_managed_identity, analyzer, cli, op, image_data, system_prompt, user_prompt, encoded_image,
                    messages, max_retries, attempt, calls, sleeps, exc, ai_result,
                    batch_vars >>

(* the transport raises; inside _call_with_retry the except clause either  *)
(* re-raises (final attempt) or goes on to sleep                           *)
TransportRaises ==
    /\ pc = "inflight"
    /\ \E f \in TransportFaults :
          LET e == Error(f.type, f.msg, calls)
          IN  /\ reply' = ReplyError(calls, e)
              /\ IF variant \in RetryVariants
                 THEN IF IsFinalAttempt(attempt, max_retries)
                      THEN /\ exc' = Reraise(e)
                           /\ cwr_result' = Raised(Reraise(e))
                           /\ pc' = AfterRaise
                      ELSE /\ exc' = e
                           /\ cwr_result' = cwr_result
                           /\ pc' = "sleep"
                 ELSE /\ exc' = e
                      /\ cwr_result' = cwr_result
                      /\ pc' = "except"
    /\ inflight' = inflight - 1
    /\ log' = Append(log, Event("fail", attempt))
    /\ UNCHANGED << variant, requests, single_result, env, use_managed_identity, analyzer, cli, op, image_data, system_prompt, user_prompt, encoded_image,
                    messages, max_retries, attempt, calls, sleeps, response,
                    ai_result, batch_vars >>

(* time.sleep(wait_time), then the next iteration of the for loop *)
Sleep ==
    /\ pc = "sleep"
    /\ sleeps' = Append(sleeps, WaitTime(attempt))
    /\ log' = Append(log, Event("sleep", WaitTime(attempt)))
    /\ attempt' = attempt + 1
    /\ pc' = "retry_loop"
    /\ UNCHANGED << variant, requests, single_result, env, use_managed_identity, analyzer, cli, reply, op, image_data, system_prompt, user_prompt, encoded_image,
                    messages, max_retries, inflight, calls, exc, response,
                    cwr_result, ai_result, batch_vars >>

(* return response.choices[0].message.content *)
ExtractTextRetried ==
    /\ pc = "extract"
    /\ LET r == Extract(response)
       IN  IF r.ok
           THEN /\ ai_result' = ReturnedText(r.value)
                /\ pc' = AfterAnalyze
                /\ exc' = exc
           ELSE /\ exc' = r.error
                /\ pc' = IF variant \in RetryVariants /\ ~IsFinalAttempt(attempt, max_retries)
                         THEN "sleep" ELSE "except"
                /\ ai_result' = ai_result
    /\ analyzer' = SelfAfter(analyzer)
    /\ UNCHANGED << variant, requests, single_result, env, use_managed_identity, cli, reply, op, image_data, system_prompt, user_prompt, encoded_image,
                    messages, max_retries, attempt, inflight, calls, sleeps, log,
                    response, cwr_result, batch_vars >>

(* return response.choices[0].message.content *)
ExtractText ==
    /\ pc = "extract"
    /\ LET r == Extract(response)
       IN  IF r.ok
           THEN /\ ai_result' = ReturnedText(r.value)
                /\ pc' = AfterAnalyze
                /\ exc' = exc
           ELSE /\ exc' = r.error
                /\ pc' = "except"
                /\ ai_result' = ai_result
    /\ analyzer' = SelfAfter(analyzer)
    /\ UNCHANGED << variant, requests, single_result, env, use_managed_identity, cli, reply, op, image_data, system_prompt, user_prompt, encoded_image,
                    messages, max_retries, attempt, inflight, calls, sleeps, log,
                    response, cwr_result, batch_vars >>

(* the exception leaves analyze_image through its except clauses *)
ExceptClause ==
    /\ pc = "except"
    /\ ai_result' = Raised(Surface(variant, exc))
    /\ pc' = AfterAnalyze
    /\ analyzer' = SelfAfter(analyzer)
    /\ UNCHANGED << variant, requests, single_result, env, use_managed_identity, cli, reply, op, image_data, system_prompt, user_prompt, encoded_image,
                    messages, max_retries, attempt, inflight, calls, sleeps, log,
                    exc, response, cwr_result, batch_vars >>

(* streamlit_app.py: the analyzer it imports *)
StreamlitVariants == {"image_analyzer"}

(* prompt if prompt.strip() else None *)
StripOrNone(s) == IF Len(Strip(s)) > 0 THEN Str(s) ELSE None

(* the text boxes of the page: strings, never None *)
PromptStrings == {p.str : p \in {q \in Prompts : ~q.is_none}}

(* f"Error analyzing image: {str(e)}" *)
ErrorText(e) == <<"Error analyzing image:", " ">> \o e.msg

(* what analyze_single_image hands back for the outcome of analyze_image *)
HelperResult(outcome) ==
    IF outcome.kind = "return" THEN ReturnedText(outcome.text)
    ELSE ReturnedText(ErrorText(outcome.error))

(* streamlit_app.py analyze_single_image(image_bytes, system_prompt, user_prompt) *)
StartSingleImage ==
    /\ pc = "idle"
    /\ Ready
    /\ variant \in StreamlitVariants
    /\ \E img \in BytesImages, sp \in PromptStrings, up \in PromptStrings :
          EnterAnalyzeImage(img, StripOrNone(sp), StripOrNone(up))
    /\ op' = "analyze_single_image"
    /\ UNCHANGED << variant, single_result, env, use_managed_identity, analyzer, cli,
                    inflight, batch_vars >>

(* return result, or the except clause's return of the error text *)
SingleImageEnd ==
    /\ pc = "helper_end"
    /\ single_result' = HelperResult(ai_result)
    /\ pc' = "done"
    /\ UNCHANGED << variant, requests, env, use_managed_identity, analyzer, cli, op,
                    image_data, system_prompt, user_prompt, encoded_image, messages,
                    max_retries, attempt, inflight, calls, sleeps, log, exc, reply,
                    response, cwr_result, ai_result, batch_vars >>

(* a caller invokes analyze_multiple_images *)
StartBatch ==
    /\ pc = "idle"
    /\ Ready
    /\ variant \in BatchVariants
    /\ \E list \in SeqsUpTo(BatchItems, MaxImages), sp \in BatchPrompts, up \in BatchPrompts :
          /\ image_list' = list
          /\ system_prompt' = sp
          /\ user_prompt' = up
    /\ op' = "analyze_multiple_images"
    /\ idx' = 0
    /\ results' = <<>>
    /\ pc' = "batch_loop"
    /\ UNCHANGED << variant, requests, single_result, env, use_managed_identity, analyzer, cli, reply, image_data, encoded_image, messages, max_retries, attempt,
                    inflight, calls, sleeps, log, exc, response, cwr_result, ai_result >>

(* for i, image_data in enumerate(image_list): self.analyze_image(...) *)
BatchNext ==
    /\ pc = "batch_loop"
    /\ idx < Len(image_list)
    /\ EnterAnalyzeImage(image_list[idx + 1], system_prompt, user_prompt)
    /\ UNCHANGED << variant, single_result, env, use_managed_identity, analyzer, cli, op, inflight, batch_vars >>

(* results.append({...}) in the try body or in the except clause *)
AppendRecord ==
    /\ pc = "record"
    /\ results' = Accumulate(results,
                     IF ai_result.kind = "return"
                     THEN SuccessRecord(idx, ai_result.text)
                     ELSE FailureRecord(idx, ai_result.error))
    /\ idx' = idx + 1
    /\ pc' = "batch_loop"
    /\ UNCHANGED << variant, requests, single_result, env, use_managed_identity, analyzer, cli, reply, op, image_data, system_prompt, user_prompt, encoded_image,
                    messages, max_retries, attempt, inflight, calls, sleeps, log,
                    exc, response, cwr_result, ai_result, image_list >>

(* return results *)
BatchReturn ==
    /\ pc = "batch_loop"
    /\ idx >= Len(image_list)
    /\ pc' = "done"
    /\ UNCHANGED << variant, requests, single_result, env, use_managed_identity, analyzer, cli, reply, op, image_data, system_prompt, user_prompt, encoded_image,
                    messages, max_retries, attempt, inflight, calls, sleeps, log,
                    exc, response, cwr_result, ai_result, batch_vars >>

(* the caller has its outcome; the analyzer is ready for the next call *)
Finish ==
    /\ pc = "done"
    /\ op' = "none"
    /\ pc' = "idle"
    /\ image_data' = NoImage
    /\ system_prompt' = None
    /\ user_prompt' = None
    /\ encoded_image' = <<>>
    /\ messages' = <<>>
    /\ max_retries' = 0
    /\ attempt' = 0
    /\ calls' = 0
    /\ sleeps' = <<>>
    /\ log' = <<>>
    /\ exc' = NoError
    /\ reply' = NoReply
    /\ response' = NoResponse
    /\ cwr_result' = Pending
    /\ ai_result' = Pending
    /\ image_list' = <<>>
    /\ idx' = 0
    /\ results' = <<>>
    /\ analyzer' = (IF variant = "simple_app" THEN NoAnalyzer ELSE analyzer)
    /\ requests' = <<>>
    /\ single_result' = Pending
    /\ UNCHANGED << variant, env, use_managed_identity, cli, inflight >>

Next ==
    \/ Construct
    \/ CheckConfig
    \/ MainStart
    \/ MainEnd
    \/ StartSingleImage
    \/ SingleImageEnd
    \/ StartAnalyzeImage
    \/ EncodeImage
    \/ BuildRequest
    \/ StartCallWithRetry
    \/ RetryAttempt
    \/ LoopExhausted
    \/ DirectCall
    \/ TransportReturns
    \/ TransportRaises
    \/ Sleep
    \/ ExtractText
    \/ ExceptClause
    \/ StartBatch
    \/ BatchNext
    \/ AppendRecord
    \/ BatchReturn
    \/ Finish

Spec == Init /\ [][Next]_vars

(* one thread runs the operation: a step that can be taken is taken, and   *)
(* the client call returns or raises                                       *)
FairSpec == Spec /\ WF_vars(Next)

(* ======================================================================= *)
(*                              properties                                 *)
(* ======================================================================= *)
RECURSIVE Count(_, _)
Count(l, ev) ==
    IF Len(l) = 0 THEN 0
    ELSE (IF Head(l).ev = ev THEN 1 ELSE 0) + Count(Tail(l), ev)

(* the analyzer has a _call_with_retry; calls, sleeps, log, reply and       *)
(* cwr_result describe its run for the current request                     *)
InCallWithRetry == variant \in RetryVariants

(* C1: with the default bound of 3, a request whose every transport call   *)
(* fails gets exactly 3 transport calls and then _call_with_retry raises;  *)
(* no request ever gets a fourth call.                                     *)
C1_ThreeCallsThenRaise ==
    (InCallWithRetry /\ max_retries = DefaultMaxRetries) =>
        /\ calls <= 3
        /\ (Count(log, "fail") = 3 => (cwr_result.kind = "raise" /\ calls = 3))
        /\ ((cwr_result.kind # "none" /\ Count(log, "ok") = 0) =>
                (cwr_result.kind = "raise" /\ calls = 3 /\ Count(log, "fail") = 3))

C1_Witness ==
    /\ InCallWithRetry
    /\ max_retries = DefaultMaxRetries
    /\ cwr_result.kind = "raise"
    /\ calls = 3
    /\ Count(log, "fail") = 3

(* C2: when the first two transport calls fail and the third succeeds,     *)
(* _call_with_retry returns the third call's response and has slept        *)
(* exactly 2 s then 3 s, each sleep between a failed call and the next.    *)
C2_FailFailOk ==
    (InCallWithRetry /\ cwr_result.kind # "none" /\ Count(log, "fail") = 2
        /\ Count(log, "ok") = 1) =>
        /\ cwr_result.kind = "return"
        /\ reply.kind = "response"
        /\ reply.call = 3
        /\ cwr_result.response = reply.response
        /\ sleeps = <<2, 3>>
        /\ log = << Event("call", 0), Event("fail", 0), Event("sleep", 2),
                    Event("call", 1), Event("fail", 1), Event("sleep", 3),
                    Event("call", 2), Event("ok", 2) >>

C2_Witness ==
    /\ InCallWithRetry
    /\ cwr_result.kind = "return"
    /\ Count(log, "fail") = 2
    /\ Count(log, "ok") = 1
    /\ max_retries = DefaultMaxRetries

(* C3 as stated: the sleep immediately before attempt k >= 1 lasts         *)
(* 2^k + 1 seconds, and no sleep precedes attempt 0.                       *)
C3_Original ==
    InCallWithRetry =>
        \A i \in 1 .. Len(log) :
            log[i].ev = "call" =>
                IF log[i].n = 0 THEN i = 1
                ELSE /\ i > 1
                     /\ log[i - 1].ev = "sleep"
                     /\ log[i - 1].n = (2 ^ log[i].n) + 1

(* C3 amended: the sleep immediately before attempt k >= 1 lasts           *)
(* 2^(k-1) + 1 seconds (2 s before attempt 1, 3 s before attempt 2), and   *)
(* no sleep precedes attempt 0.                                            *)
C3_SleepBeforeAttempt ==
    InCallWithRetry =>
        \A i \in 1 .. Len(log) :
            log[i].ev = "call" =>
                IF log[i].n = 0 THEN i = 1
                ELSE /\ i > 1
                     /\ log[i - 1].ev = "sleep"
                     /\ log[i - 1].n = (2 ^ (log[i].n - 1)) + 1

C3_Witness ==
    /\ InCallWithRetry
    /\ \E i \in 1 .. Len(log) : log[i].ev = "call" /\ log[i].n = 3
    /\ \E i \in 1 .. Len(log) : log[i].ev = "sleep" /\ log[i].n = 5

(* C4: when the final attempt fails, what _call_with_retry raises is the   *)
(* very error object the final transport call produced: not one of an      *)
(* earlier attempt, not a new error around it.                             *)
C4_RaisesFinalErrorVerbatim ==
    (InCallWithRetry /\ cwr_result.kind = "raise") =>
        /\ reply.kind = "error"
        /\ reply.call = max_retries
        /\ cwr_result.error = reply.error
        /\ cwr_result.error.origin = max_retries
        /\ cwr_result.error.type \in {f.type : f \in TransportFaults}

C4_Witness ==
    /\ InCallWithRetry
    /\ cwr_result.kind = "raise"
    /\ max_retries >= 2
    /\ cwr_result.error.origin = max_retries

(* analyze_image has raised because the transport failed for the last time *)
TransportExhausted == ai_result.kind = "raise" /\ reply.kind = "error"

(* C5 as stated: in every variant the error analyze_image raises after     *)
(* the transport's last failure has the type and message of that failure.  *)
C5_Original ==
    TransportExhausted =>
        /\ ai_result.error.type = reply.error.type
        /\ ai_result.error.msg = reply.error.msg

(* C5 amended: after the transport's last failure, app.py and simple_app.py *)
(* raise that transport error itself; image_analyzer.py raises a new        *)
(* Exception, the managed-identity and Foundry variants a new RuntimeError, *)
(* whose message is "Failed to analyze image: " followed by the message of  *)
(* the last transport failure.                                              *)
C5_SurfacedError ==
    TransportExhausted =>
        /\ reply.call = calls
        /\ IF variant \in {"app", "simple_app"}
           THEN ai_result.error = reply.error
           ELSE /\ ai_result.error.type =
                       (IF variant = "image_analyzer" THEN "Exception" ELSE "RuntimeError")
                /\ ai_result.error.msg =
                       <<"Failed to analyze image:", " ">> \o reply.error.msg
                /\ ai_result.error.origin = 0

C5_Witness ==
    /\ TransportExhausted
    /\ variant = "managed_identity"
    /\ calls = 3
    /\ ai_result.error.type = "RuntimeError"
    /\ ai_result.error.msg = <<"Failed to analyze image:", " ", "Request timed out.">>

(* C6: every variant retries its remote call with a bound of 3: an         *)
(* analysis fails on a transport failure only after 3 calls, and one whose *)
(* first call failed and whose second call succeeded returns that          *)
(* response's text.                                                        *)
C6_EveryVariantRetries ==
    /\ TransportExhausted => calls = 3
    /\ (/\ ai_result.kind # "none"
        /\ Len(log) >= 4
        /\ log[2].ev = "fail"
        /\ log[4].ev = "ok"
        /\ Len(reply.response.choices) > 0)
       => ai_result = ReturnedText(reply.response.choices[1])

(* the batch helper is running or has returned *)
InBatch == op = "analyze_multiple_images"

MissingFileMessage ==
    <<"Image file error:", " ", "Image file not found:", " ", "cat.jpg">>

(* C7: analyze_multiple_images returns one record per input item, record i *)
(* with index i, success = False and the error message when item i failed, *)
(* success = True and the text when it succeeded; a failing item neither   *)
(* raises out of the helper nor stops it, and appended records stay.       *)
C7_BatchIsolatesFailures ==
    /\ [](InBatch =>
            /\ Len(results) <= Len(image_list)
            /\ (pc = "done" => Len(results) = Len(image_list))
            /\ \A k \in 1 .. Len(results) :
                  /\ results[k].index = k - 1
                  /\ results[k].success \in BOOLEAN
                  /\ image_list[k].fs = "missing" =>
                        results[k] = [index |-> k - 1, success |-> FALSE,
                                      error |-> MissingFileMessage]
            /\ (pc = "batch_loop" /\ idx > 0) =>
                  /\ Len(results) = idx
                  /\ results[idx] =
                        IF ai_result.kind = "return"
                        THEN [index |-> idx - 1, success |-> TRUE,
                              result |-> ai_result.text]
                        ELSE [index |-> idx - 1, success |-> FALSE,
                              error |-> ai_result.error.msg])
    /\ [][InBatch' =>
            \/ results' = results
            \/ results' = <<>>
            \/ /\ Len(results') = Len(results) + 1
               /\ SubSeq(results', 1, Len(results)) = results]_vars

C7_Witness ==
    /\ InBatch
    /\ variant = "managed_identity"
    /\ pc = "done"
    /\ Len(results) = 3
    /\ results[1].success
    /\ results[2] = [index |-> 1, success |-> FALSE,
                     error |-> <<"Failed to analyze image:", " ", "Connection error.">>]
    /\ results[3].success

(* C8: the batch is processed strictly in sequence: never more than one    *)
(* transport request in flight, item idx is worked on (encoded, called,    *)
(* retried, slept for) only when exactly the records of items 0..idx-1     *)
(* have been appended, and records stand in input order.                   *)
C8_StrictlySequential ==
    /\ inflight <= 1
    /\ InBatch =>
          /\ (pc \in {"encode", "build", "retry_loop", "direct_call", "inflight",
                      "sleep", "extract", "except", "record"}
                => (Len(results) = idx /\ idx < Len(image_list)))
          /\ (pc = "inflight" => inflight = 1)
          /\ \A k \in 1 .. Len(results) : results[k].index = k - 1

C8_Witness ==
    /\ InBatch
    /\ pc = "inflight"
    /\ inflight = 1
    /\ idx = 2
    /\ Len(results) = 2
    /\ attempt = 2
    /\ sleeps = <<2, 3>>

(* None for a prompt that is empty or only whitespace *)
BlankAsNone(p) == IF p.is_none \/ Len(Strip(p.str)) = 0 THEN None ELSE p

(* analyze_image has built its request *)
RequestBuilt ==
    /\ op \in {"analyze_image", "analyze_multiple_images", "main", "analyze_single_image"}
    /\ Len(messages) > 0

(* C9: in every variant the request built from an empty or whitespace-only *)
(* system or user prompt is the request built when that prompt is None.    *)
C9_BlankPromptIsAbsent ==
    RequestBuilt =>
        /\ messages = BuildMessages(variant, encoded_image,
                                    BlankAsNone(system_prompt), user_prompt)
        /\ messages = BuildMessages(variant, encoded_image,
                                    system_prompt, BlankAsNone(user_prompt))

NoCustomPrompts == RequestBuilt /\ system_prompt = None /\ user_prompt = None

UserTextOf(msgs) == msgs[Len(msgs)].parts[1].text

(* C10 as stated: without custom prompts every variant sends a system      *)
(* message beginning "You are an expert image analyst" and a user text     *)
(* beginning "Analyze this image and provide a detailed description", and  *)
(* returns the text of the response's first choice.                        *)
C10_Original ==
    NoCustomPrompts =>
        /\ messages[1].role = "system"
        /\ StartsWith(messages[1].content, AnalystPrefix)
        /\ StartsWith(UserTextOf(messages), DescribePrefix)
        /\ ai_result.kind = "return" => ai_result.text = reply.response.choices[1]

(* C10 amended: without custom prompts every variant sends a user text     *)
(* beginning "Analyze this image and provide a detailed description";      *)
(* app.py, simple_app.py and image_analyzer.py also send a system message  *)
(* beginning "You are an expert image analyst", the managed-identity and   *)
(* Foundry variants send no system message; and every variant returns      *)
(* exactly the text of the response's first choice.                        *)
C10_DefaultRequest ==
    NoCustomPrompts =>
        /\ IF variant \in {"managed_identity", "foundry"}
           THEN /\ Len(messages) = 1
                /\ messages[1].role = "user"
           ELSE /\ Len(messages) = 2
                /\ messages[1].role = "system"
                /\ StartsWith(messages[1].content, AnalystPrefix)
                /\ messages[2].role = "user"
        /\ StartsWith(UserTextOf(messages), DescribePrefix)
        /\ ai_result.kind = "return" =>
              /\ reply.kind = "response"
              /\ ai_result.text = reply.response.choices[1]

C10_Witness ==
    /\ NoCustomPrompts
    /\ variant = "managed_identity"
    /\ Len(messages) = 1
    /\ ai_result.kind = "return"
    /\ reply.response.choices = << <<"A orange cat sitting on a chair.">>, <<"A", " ", "dog.">> >>
    /\ ai_result.text = <<"A orange cat sitting on a chair.">>

(* C11: every request handed to the transport has at most one system      *)
(* message and exactly one user message, the system message first when     *)
(* there is one, and the user message holds exactly one text part followed *)
(* by exactly one image part.                                              *)
C11_RequestShape ==
    Len(messages) > 0 =>
        LET n == Len(messages)
        IN  /\ n \in {1, 2}
            /\ n = 2 => messages[1].role = "system"
            /\ messages[n].role = "user"
            /\ Len(messages[n].parts) = 2
            /\ messages[n].parts[1].type = "text"
            /\ messages[n].parts[2].type = "image_url"

C11_Witness ==
    /\ pc = "inflight"
    /\ variant = "managed_identity"
    /\ system_prompt = Str(<<" ">>)
    /\ user_prompt = Str(<<"x">>)
    /\ Len(messages) = 1

(* the default user text of each variant *)
DefaultUserText(v) ==
    IF v \in {"app", "simple_app"} THEN AppDefaultPrompt
    ELSE IF v = "image_analyzer" THEN AnalyzerDefaultUserPrompt
    ELSE IdentityDefaultUserPrompt

(* C12: the text part of the user message is the user prompt verbatim,     *)
(* leading and trailing whitespace included, when that prompt is           *)
(* non-blank, and the fixed default instruction otherwise.                 *)
C12_UserPromptVerbatim ==
    RequestBuilt =>
        UserTextOf(messages) =
            IF ~user_prompt.is_none /\ Len(Strip(user_prompt.str)) > 0
            THEN user_prompt.str
            ELSE DefaultUserText(variant)

B64Index(c) == CHOOSE n \in 0 .. 63 : B64Alphabet[n + 1] = c

RECURSIVE B64Decode(_)
B64Decode(chars) ==
    IF Len(chars) < 4 THEN <<>>
    ELSE LET a == B64Index(chars[1])
             b == B64Index(chars[2])
         IN  IF chars[3] = "=" THEN << a * 4 + b \div 16 >>
             ELSE IF chars[4] = "="
             THEN << a * 4 + b \div 16, (b % 16) * 16 + B64Index(chars[3]) \div 4 >>
             ELSE << a * 4 + b \div 16,
                     (b % 16) * 16 + B64Index(chars[3]) \div 4,
                     (B64Index(chars[3]) % 4) * 64 + B64Index(chars[4]) >>
                  \o B64Decode(SubSeq(chars, 5, Len(chars)))

(* JPEG files start with the byte FF *)
LooksLikeJpeg(bytes) == Len(bytes) > 0 /\ bytes[1] = 255

ImageUrlOf(msgs) == msgs[Len(msgs)].parts[2].url

(* C13: in every request built by analyze_image the image URL is           *)
(* "data:image/jpeg;base64," followed by the base64 encoding of the bytes  *)
(* of that call's image, whatever the image's real format and the prompts. *)
C13_JpegDataUrl ==
    RequestBuilt =>
        LET url == ImageUrlOf(messages)
        IN  /\ Len(url) = 1 + 4 * ((Len(image_data.bytes) + 2) \div 3)
            /\ url[1] = "data:image/jpeg;base64,"
            /\ \A i \in 2 .. Len(url) : url[i] \in {B64Alphabet[k] : k \in 1 .. 64} \cup {"="}
            /\ B64Decode(SubSeq(url, 2, Len(url))) = image_data.bytes

C13_Witness ==
    /\ RequestBuilt
    /\ pc = "inflight"
    /\ ~LooksLikeJpeg(image_data.bytes)
    /\ ImageUrlOf(messages) = <<"data:image/jpeg;base64,", "T", "Q", "=", "=">>
    /\ user_prompt = Str(<<"x">>)

(* the transport answered the last call with a response without choices *)
EmptyChoices == reply.kind = "response" /\ Len(reply.response.choices) = 0

(* analyze_image has ended *)
AnalyzeEnded == ai_result.kind # "none"

(* C14 as stated: on a response with an empty choices list analyze_image   *)
(* fails with a dedicated EmptyResponse error, distinct from a transport   *)
(* failure and from an index fault.                                        *)
C14_Original ==
    (AnalyzeEnded /\ EmptyChoices) =>
        /\ ai_result.kind = "raise"
        /\ ai_result.error.type = "EmptyResponse"

(* C14 amended: on a response with an empty choices list analyze_image     *)
(* fails with the IndexError of choices[0], not with a dedicated error:    *)
(* app.py and simple_app.py let that IndexError reach the caller,          *)
(* image_analyzer.py raises Exception and the managed-identity and Foundry *)
(* variants RuntimeError with the message "Failed to analyze image: list   *)
(* index out of range", the type they also raise for a transport failure.  *)
C14_EmptyChoicesFault ==
    (AnalyzeEnded /\ EmptyChoices) =>
        /\ ai_result.kind = "raise"
        /\ IF variant \in {"app", "simple_app"}
           THEN /\ ai_result.error.type = "IndexError"
                /\ ai_result.error.msg = <<"list index out of range">>
           ELSE /\ ai_result.error.type =
                       (IF variant = "image_analyzer" THEN "Exception" ELSE "RuntimeError")
                /\ ai_result.error.msg =
                       <<"Failed to analyze image:", " ", "list index out of range">>

C14_Witness ==
    /\ AnalyzeEnded
    /\ EmptyChoices
    /\ variant = "image_analyzer"
    /\ ai_result.error.type = "Exception"
    /\ calls = 2

(* the encoder has just failed on a path *)
EncoderFailedOnPath ==
    /\ pc = "except"
    /\ calls = 0
    /\ reply.kind = "none"
    /\ image_data.kind = "path"

(* C15 as stated: the encoder fails with a not-found error both for a path *)
(* that does not exist and for one that exists but is not a regular file.  *)
C15_Original ==
    /\ EncoderFailedOnPath /\ image_data.fs \in {"missing", "dir"}
          => exc.type = "FileNotFoundError"
    /\ (pc = "build" /\ image_data.kind = "path") => image_data.fs = "file"

(* C15 amended: the encoder fails with FileNotFoundError ("Image file not  *)
(* found: <path>") whenever the path does not exist; a path that exists    *)
(* but is a directory fails with the IsADirectoryError of opening it, not  *)
(* with a not-found error; no path other than a file is encoded.           *)
C15_NotFoundOnlyWhenMissing ==
    /\ EncoderFailedOnPath =>
          /\ image_data.fs = "missing" =>
                /\ exc.type = "FileNotFoundError"
                /\ exc.msg = <<"Image file not found:", " ", image_data.path>>
          /\ image_data.fs = "dir" => exc.type = "IsADirectoryError"
    /\ (pc = "build" /\ image_data.kind = "path") => image_data.fs = "file"

C15_Witness ==
    /\ EncoderFailedOnPath
    /\ variant = "managed_identity"
    /\ image_data.fs = "dir"
    /\ exc.type = "IsADirectoryError"

(* a validating encoder was given a readable file *)
ValidatedFile ==
    /\ variant \in {"app", "simple_app"}
    /\ analyzer.built
    /\ image_data.kind = "path"
    /\ image_data.fs = "file"
    /\ pc \notin {"idle", "config", "encode"}

(* C16 as stated: in app.py and simple_app.py a failure of the PIL         *)
(* introspection of a readable file does not block encoding: the encoder   *)
(* still returns the base64 encoding of the file's bytes.                  *)
C16_Original ==
    (ValidatedFile /\ ~image_data.pil_ok) =>
        /\ exc.type # "UnidentifiedImageError"
        /\ B64Decode(encoded_image) = image_data.bytes

(* C16 amended: in app.py and simple_app.py a failure of the PIL           *)
(* introspection of a readable file blocks encoding: the encoder re-raises *)
(* the introspection error and no request is built or sent; the base64     *)
(* encoding of the file's bytes is returned only when the introspection    *)
(* succeeds.                                                               *)
C16_ValidationBlocksEncoding ==
    ValidatedFile =>
        IF image_data.pil_ok
        THEN /\ B64Decode(encoded_image) = image_data.bytes
             /\ Len(encoded_image) = 4 * ((Len(image_data.bytes) + 2) \div 3)
        ELSE /\ exc.type = "UnidentifiedImageError"
             /\ encoded_image = <<>>
             /\ messages = <<>>
             /\ calls = 0
             /\ AnalyzeEnded => ai_result = Raised(exc)

C16_Witness ==
    /\ ValidatedFile
    /\ variant = "app"
    /\ ~image_data.pil_ok
    /\ image_data.bytes = <<77>>
    /\ AnalyzeEnded
    /\ ai_result.error.type = "UnidentifiedImageError"

(* the endpoint the variant needs is absent: unset or "" (the Foundry       *)
(* variant falls back to a built-in endpoint when the variable is unset)   *)
EndpointAbsent ==
    IF variant = "foundry" THEN env.endpoint = Str(<<>>)
    ELSE env.endpoint.is_none \/ env.endpoint.str = <<>>

KeyAbsent == env.api_key.is_none \/ env.api_key.str = <<>>

(* the configuration the variant requires is absent: the managed-identity  *)
(* variant requires no key; app.py requires the endpoint in main and the   *)
(* key when API-key authentication is asked for                            *)
RequiredConfigAbsent ==
    IF variant = "managed_identity" THEN EndpointAbsent
    ELSE IF variant = "app"
         THEN (op = "main" /\ EndpointAbsent) \/ (~use_managed_identity /\ KeyAbsent)
    ELSE EndpointAbsent \/ KeyAbsent

(* nothing was sent and nothing was slept for the current request *)
NoTransportWork ==
    /\ calls = 0
    /\ inflight = 0
    /\ sleeps = <<>>
    /\ log = <<>>
    /\ messages = <<>>
    /\ pc \notin {"build", "retry_loop", "direct_call", "inflight", "sleep", "extract"}

MissingPath ==
    /\ op \in {"analyze_image", "analyze_multiple_images", "main"}
    /\ image_data.kind = "path"
    /\ image_data.fs = "missing"
    /\ pc \notin {"config", "encode"}

SystemTextOf(msgs) == msgs[1].content

(* C18: no step taken after the analyzer is constructed changes its fields *)
(* (endpoint, key, api version, model, credential, client); the request of *)
(* a call holds that call's image and texts taken from that call's prompts *)
(* or the fixed defaults, and the text returned is the first choice of     *)
(* that call's response, whatever calls came before.                       *)
C18_Stateless ==
    /\ [](RequestBuilt =>
            /\ LET url == ImageUrlOf(messages)
               IN  B64Decode(SubSeq(url, 2, Len(url))) = image_data.bytes
            /\ UserTextOf(messages) \in
                    {user_prompt.str, Strip(user_prompt.str), DefaultUserText(variant)}
            /\ Len(messages) = 2 =>
                    SystemTextOf(messages) \in
                        {system_prompt.str, Strip(system_prompt.str), AppSystemText,
                         AnalyzerDefaultSystemPrompt}
            /\ ai_result.kind = "return" =>
                    /\ reply.kind = "response"
                    /\ ai_result.text = reply.response.choices[1])
    /\ [][(variant # "simple_app" /\ analyzer.built) => analyzer' = analyzer]_vars

C18_Witness ==
    /\ variant = "managed_identity"
    /\ op = "analyze_multiple_images"
    /\ idx = 2
    /\ Len(results) = 2
    /\ ~results[1].success
    /\ results[2].success
    /\ ai_result.kind = "return"
    /\ analyzer.built
    /\ analyzer.endpoint = Str(EndpointUrl)
    /\ analyzer.model = "gpt-4o"

C20_ExitCode ==
    cli.exited =>
        /\ cli.code \in {0, 1}
        /\ cli.code = 0 <=>
              /\ reply.kind = "response"
              /\ Len(reply.response.choices) > 0
              /\ cli.printed = Str(reply.response.choices[1])
        /\ (variant = "app" /\ EndpointAbsent) => cli.code = 1
        /\ ~analyzer.built => cli.code = 1
        /\ (image_data.kind = "path" /\ image_data.fs = "missing") => cli.code = 1
        /\ reply.kind = "error" => cli.code = 1
        /\ EmptyChoices => cli.code = 1

C20_Witness ==
    /\ variant = "app"
    /\ cli.exited
    /\ cli.code = 1
    /\ analyzer.built
    /\ reply.kind = "error"
    /\ calls = 3

Min(a, b) == IF a < b THEN a ELSE b

(* _call_with_retry runs or has run with a bound of at least 1 *)
RetryBounded == InCallWithRetry /\ max_retries >= 1

(* C21: with a bound n >= 1 and f failures before the first success,       *)
(* _call_with_retry ends, after exactly min(f + 1, n) transport calls and  *)
(* calls - 1 sleeps; every sleep follows a failed call and precedes the    *)
(* next call, none follows a success or the failure of call n, and a       *)
(* response is returned iff f < n.                                         *)
C21_CallsAndSleeps ==
    /\ [](RetryBounded =>
            /\ calls <= max_retries
            /\ \A i \in 1 .. Len(log) :
                  /\ log[i].ev = "sleep" =>
                        /\ i > 1
                        /\ log[i - 1].ev = "fail"
                        /\ log[i - 1].n < max_retries - 1
                        /\ i < Len(log) => log[i + 1].ev = "call"
                  /\ log[i].ev = "ok" => i = Len(log)
            /\ cwr_result.kind # "none" =>
                  LET f == Count(log, "fail")
                  IN  /\ calls = Min(f + 1, max_retries)
                      /\ Count(log, "call") = calls
                      /\ Len(sleeps) = calls - 1
                      /\ Count(log, "sleep") = calls - 1
                      /\ log[Len(log)].ev \in {"ok", "fail"}
                      /\ cwr_result.kind = "return" <=> f < max_retries
                      /\ cwr_result.kind = "return" =>
                            (Count(log, "ok") = 1 /\ ~cwr_result.response.is_none)
                      /\ cwr_result.kind = "raise" => Count(log, "ok") = 0)
    /\ (pc = "retry_loop" /\ max_retries >= 1) ~> (cwr_result.kind # "none")

C21_Witness ==
    /\ op = "call_with_retry"
    /\ max_retries = 4
    /\ cwr_result.kind = "return"
    /\ Count(log, "fail") = 3
    /\ calls = 4
    /\ sleeps = <<2, 3, 5>>

(* C24: for every max_retries, 0 included, _call_with_retry ends by        *)
(* returning a response that a transport call produced or by raising; it   *)
(* never returns without a response.                                       *)
C24_ReturnsResponseOrRaises ==
    (InCallWithRetry /\ cwr_result.kind = "return") =>
        /\ ~cwr_result.response.is_none
        /\ calls >= 1
        /\ reply.kind = "response"
        /\ cwr_result.response = reply.response

(* C26: once a transport call has returned a response, no further call is  *)
(* made and no sleep is performed for that image, also when extracting the *)
(* text from the response fails.                                           *)
C26_ResponseEndsCalls ==
    /\ [](reply.kind = "response" =>
            /\ reply.call = calls
            /\ inflight = 0
            /\ Count(log, "call") = calls
            /\ log[Len(log)].ev = "ok"
            /\ Len(sleeps) = calls - 1
            /\ pc \notin {"retry_loop", "direct_call", "inflight", "sleep"})
    /\ [][reply.kind = "response" =>
            (calls' = calls /\ sleeps' = sleeps) \/ (calls' = 0 /\ sleeps' = <<>>)]_vars

C26_Witness ==
    /\ variant = "image_analyzer"
    /\ op = "analyze_image"
    /\ EmptyChoices
    /\ ai_result.kind = "raise"
    /\ calls = 1
    /\ sleeps = <<>>

(* the managed-identity batch helper is running or has returned *)
IdentityBatch == variant = "managed_identity" /\ InBatch

(* C22: in a managed-identity batch the retry state belongs to one image:  *)
(* every image enters the retry loop with attempt 0, no calls, no sleeps   *)
(* and the bound 3, whatever earlier images spent; its sleeps are 2 s then *)
(* 3 s; an image fails on the transport only after 3 calls of its own and  *)
(* an image that succeeds at once costs 1 call and no sleep.               *)
C22_RetryStatePerImage ==
    /\ [](IdentityBatch =>
            /\ pc \in {"retry_loop", "inflight", "sleep"} => max_retries = 3
            /\ pc = "retry_loop" =>
                  /\ calls = attempt
                  /\ Len(sleeps) = attempt
                  /\ Count(log, "fail") = attempt
            /\ pc \in {"inflight", "sleep"} => calls = attempt + 1
            /\ sleeps \in {<<>>, <<2>>, <<2, 3>>}
            /\ (ai_result.kind = "raise" /\ reply.kind = "error") =>
                  (calls = 3 /\ sleeps = <<2, 3>>)
            /\ (ai_result.kind = "return" /\ Count(log, "fail") = 0) =>
                  (calls = 1 /\ sleeps = <<>>))
    /\ [][(IdentityBatch /\ pc = "batch_loop" /\ pc' # "batch_loop" /\ pc' # "done") =>
            /\ attempt' = 0
            /\ calls' = 0
            /\ sleeps' = <<>>
            /\ log' = <<>>]_vars

C22_Witness ==
    /\ IdentityBatch
    /\ Len(image_list) = 3
    /\ idx = 2
    /\ Len(results) = 2
    /\ results[1].success
    /\ results[2] = [index |-> 1, success |-> FALSE,
                     error |-> <<"Failed to analyze image:", " ", "Request timed out.">>]
    /\ pc = "record"
    /\ ai_result.kind = "return"
    /\ calls = 1
    /\ sleeps = <<>>

(* the text of the latest response's first choice is what was returned *)
TextOfResponse(t) ==
    /\ reply.kind = "response"
    /\ Len(reply.response.choices) > 0
    /\ t = reply.response.choices[1]

(* C23: no operation that analyzes one image returns a text for a failed   *)
(* analysis: analyze_image and the Streamlit helper analyze_single_image   *)
(* return the text of the model's response or signal an error.             *)
C23_FailureNeverText ==
    /\ ai_result.kind = "return" => TextOfResponse(ai_result.text)
    /\ single_result.kind = "return" => TextOfResponse(single_result.text)

(* C25: every attempt of one _call_with_retry execution sends the same     *)
(* request - messages, model, max_tokens, temperature - as attempt 0; no   *)
(* failed attempt and no sleep changes the messages, and the image is not  *)
(* encoded again between attempts.                                         *)
C25_SameRequestEveryAttempt ==
    /\ [](/\ Len(requests) = calls
          /\ \A k \in 1 .. Len(requests) :
                /\ requests[k] = requests[1]
                /\ requests[k].messages = messages
                /\ requests[k].model = "gpt-4o"
                /\ requests[k].max_tokens = 1000
                /\ requests[k].temperature = "0.1")
    /\ [][(pc = "retry_loop" \/ pc = "inflight" \/ pc = "sleep") =>
            /\ messages' = messages
            /\ encoded_image' = encoded_image
            /\ image_data' = image_data]_vars

C25_Witness ==
    /\ variant = "managed_identity"
    /\ op = "analyze_image"
    /\ pc = "inflight"
    /\ calls = 3
    /\ Len(requests) = 3
    /\ Count(log, "fail") = 2
    /\ sleeps = <<2, 3>>
    /\ requests[3] = requests[1]
    /\ requests[3].max_tokens = 1000
    /\ image_data.bytes = <<255>>

====
